---- MODULE Spec2Model ----
(***************************************************************************)
(* TD3 (garage/tf/algos/td3.py): the training step optimize_policy, the    *)
(* training and target-synchronisation operations built by init_opt, and   *)
(* the bootstrapped, clipped target computation.                           *)
(*                                                                         *)
(* Numbers.  Every real quantity is an exact fixed-point rational:         *)
(*   weights, actions, rewards, Q values   integers in units of 1/Scale    *)
(*   targets ys                            units of 1/(Scale*DiscountDen)  *)
(*   critic loss                  units of 1/(2*B*(Scale*DiscountDen)^2)   *)
(*   actor loss                            units of 1/(2*B*Scale^2)        *)
(* with B the batch size.  Scale is TauDen^(2*MaxCalls), so that every     *)
(* soft update that can happen within MaxCalls steps is exact.             *)
(***************************************************************************)
EXTENDS Integers, Sequences, FiniteSets, TLC

\* ---------------------------------------------------------------- bounds
MaxCalls == 2
BatchSize == 2
Trials == 2
NParams == 2

\* ------------------------------------------------- fixed-point resolution
\* target_update_tau is TauNum/TauDen and discount is DiscountNum/DiscountDen
TauDen == 2
DiscountDen == 2

\* np.inf, the default clip_return: larger than every value of the model
Inf == 1000000000

RECURSIVE Pow(_, _)
Pow(b, e) == IF e = 0 THEN 1 ELSE b * Pow(b, e - 1)

Scale == Pow(TauDen, 2 * MaxCalls)

Abs(x) == IF x < 0 THEN -x ELSE x

RECURSIVE SumSeq(_)
SumSeq(s) == IF s = <<>> THEN 0 ELSE Head(s) + SumSeq(Tail(s))

\* ------------------------------------------------------- numpy primitives
NpMinimumFirst(a, b) == a

NpMinimum(a, b) == IF a <= b THEN a ELSE b

NpMaximum(a, b) == IF a >= b THEN a ELSE b

NpClipNoLower(x, lo, hi) == NpMinimum(x, hi)

NpClip(x, lo, hi) == NpMinimum(NpMaximum(x, lo), hi)

\* ------------------------------------------------ the target computation
\* clip_range of optimize_policy, in the units of ys
ClipRangeIgnoringFlag(clip_return, clip_pos_returns) ==
    IF clip_return = Inf THEN <<-Inf, Inf>>
    ELSE <<-(clip_return * DiscountDen), clip_return * DiscountDen>>

ClipRange(clip_return, clip_pos_returns) ==
    IF clip_return = Inf
    THEN <<-Inf, IF clip_pos_returns THEN 0 ELSE Inf>>
    ELSE <<-(clip_return * DiscountDen),
           IF clip_pos_returns THEN 0 ELSE clip_return * DiscountDen>>

\* one element of ys: reward and the target Q values are in units of 1/Scale,
\* discount is the numerator of discount/DiscountDen
TargetYAlways(reward, terminal, discount, target_qval, target_q2val, clip) ==
    NpClip(reward * DiscountDen
             + discount * NpMinimum(target_qval, target_q2val),
           clip[1], clip[2])

TargetY(reward, terminal, discount, target_qval, target_q2val, clip_range) ==
    NpClip(reward * DiscountDen
             + (1 - terminal) * discount * NpMinimum(target_qval, target_q2val),
           clip_range[1], clip_range[2])

\* ------------------------------------------------------------- networks
\* Each network is one scalar weight.  The network functions stand for the
\* callables returned by build_net and the symbols of get_action_sym and
\* get_qval_sym: deterministic functions of the weight and the inputs.
OnlineNets == {"policy", "qf", "qf2"}
TargetNets == {"target_policy", "target_qf", "target_qf2"}
Nets == OnlineNets \cup TargetNets

\* the online network a target network shadows
OnlineOf(target) ==
    CASE target = "target_policy" -> "policy"
      [] target = "target_qf" -> "qf"
      [] target = "target_qf2" -> "qf2"

\* two values of different magnitude, so that the L2 terms of two networks
\* can differ
WeightValues == {-Scale, 2 * Scale}

\* inputs of a network: the observation, with the goal when input_include_goal
Inputs(observation, goal, input_include_goal) ==
    IF input_include_goal THEN <<observation, goal>> ELSE <<observation>>

PolicyNet(weight, input) == weight * SumSeq(input)

QNet(weight, input, action) == weight * SumSeq(input) + action

\* ------------------------------------------------------- hyperparameters
\* clip_return is in units of 1/Scale (or Inf); tau and discount are
\* numerators over TauDen and DiscountDen; the weight decays are integers.
Configs ==
    { [clip_return |-> Inf, clip_pos_returns |-> FALSE, tau |-> 1,
       discount |-> 1, policy_weight_decay |-> 0, qf_weight_decay |-> 0,
       input_include_goal |-> FALSE],
      [clip_return |-> 2 * Scale, clip_pos_returns |-> FALSE, tau |-> 1,
       discount |-> 2, policy_weight_decay |-> 1, qf_weight_decay |-> 1,
       input_include_goal |-> TRUE],
      [clip_return |-> Scale, clip_pos_returns |-> TRUE, tau |-> TauDen,
       discount |-> 1, policy_weight_decay |-> 0, qf_weight_decay |-> 1,
       input_include_goal |-> FALSE] }

\* the transitions the replay buffer holds
ReplayBuffer ==
    { [observation |-> 1, action |-> Scale, reward |-> 2 * Scale,
       next_observation |-> 2, terminal |-> 0, goal |-> 1],
      [observation |-> 2, action |-> -Scale, reward |-> -Scale,
       next_observation |-> 1, terminal |-> 1, goal |-> 0] }

Batches == [1..BatchSize -> ReplayBuffer]

\* ------------------------------------------------- symbols of init_opt
Sq(x) == x * x

\* get_qval_sym / get_action_sym on a batch
QvalSym(weight, inputs, actions) ==
    [i \in 1..Len(inputs) |-> QNet(weight, inputs[i], actions[i])]

ActionSym(weight, inputs) ==
    [i \in 1..Len(inputs) |-> PolicyNet(weight, inputs[i])]

\* action_loss: -reduce_mean(minimum(qval, q2val)), plus the policy L2 term;
\* in units of 1/(2*B*Scale^2)
ActionLossFirstCritic(wm, inputs, policy_weight_decay) ==
    LET next_action == ActionSym(wm["policy"], inputs)
        qval == QvalSym(wm["qf"], inputs, next_action)
    IN  -(2 * Scale * SumSeq(qval))
        + (IF policy_weight_decay > 0
           THEN Len(inputs) * policy_weight_decay * Sq(wm["policy"])
           ELSE 0)

ActionLoss(wm, inputs, policy_weight_decay) ==
    LET next_action == ActionSym(wm["policy"], inputs)
        qval == QvalSym(wm["qf"], inputs, next_action)
        q2val == QvalSym(wm["qf2"], inputs, next_action)
        next_qval == [i \in 1..Len(inputs) |-> NpMinimum(qval[i], q2val[i])]
    IN  -(2 * Scale * SumSeq(next_qval))
        + (IF policy_weight_decay > 0
           THEN Len(inputs) * policy_weight_decay * Sq(wm["policy"])
           ELSE 0)

\* qval_loss: the two mean squared differences, plus the L2 term on the
\* regularizable variables of qf; in units of 1/(2*B*(Scale*DiscountDen)^2)
QvalLoss(wm, y, inputs, actions, qf_weight_decay) ==
    LET qval == QvalSym(wm["qf"], inputs, actions)
        q2val == QvalSym(wm["qf2"], inputs, actions)
    IN  2 * (SumSeq([i \in 1..Len(y) |-> Sq(y[i] - DiscountDen * qval[i])])
             + SumSeq([i \in 1..Len(y) |-> Sq(y[i] - DiscountDen * q2val[i])]))
        + (IF qf_weight_decay > 0
           THEN Len(y) * qf_weight_decay * Sq(DiscountDen) * Sq(wm["qf"])
           ELSE 0)

\* var_list of the three minimize calls
PolicyTrainVarsAll == {"policy", "target_policy"}

PolicyTrainVars == {"policy"}

QfTrainVarsBoth == {"qf", "qf2"}

QfTrainVars == {"qf"}

Qf2TrainVars == {"qf2"}

\* optimizer.minimize(loss, var_list): one step assigns the variables of
\* var_list, and no other variable
Minimize(wm, var_list, new) ==
    [n \in Nets |-> IF n \in var_list THEN new[n] ELSE wm[n]]

\* get_target_ops: init copies the online weight, update moves the target
\* weight by tau towards the online weight
InitOp(var, target_var) == var

SoftUpdate(var, target_var, tau) ==
    (tau * var + (TauDen - tau) * target_var) \div TauDen

policy_init_ops(wm) ==
    [wm EXCEPT !["target_policy"] = InitOp(wm["policy"], @)]

qf_init_ops(wm) == [wm EXCEPT !["target_qf"] = InitOp(wm["qf"], @)]

qf2_init_ops(wm) == [wm EXCEPT !["target_qf2"] = InitOp(wm["qf2"], @)]

policy_update_ops(wm, tau) ==
    [wm EXCEPT !["target_policy"] = SoftUpdate(wm["policy"], @, tau)]

qf_update_ops(wm, tau) ==
    [wm EXCEPT !["target_qf"] = SoftUpdate(wm["qf"], @, tau)]

qf2_update_ops(wm, tau) ==
    [wm EXCEPT !["target_qf2"] = SoftUpdate(wm["qf2"], @, tau)]

target_init_op(wm) == qf_init_ops(policy_init_ops(wm))

target_init_op2(wm) == qf2_init_ops(policy_init_ops(wm))

target_update_op(wm, tau) == qf_update_ops(policy_update_ops(wm, tau), tau)

target_update_op2_policy_only(wm, tau) == policy_update_ops(wm, tau)

target_update_op2(wm, tau) == qf2_update_ops(policy_update_ops(wm, tau), tau)

\* ------------------------------------------------------------ the state
VARIABLES
    cfg,            \* the hyperparameters of __init__
    w,              \* the weight of every network (the session's variables)
    pc,             \* the statement of optimize_policy that runs next
    calls,          \* optimize_policy calls that have returned
    transitions,    \* locals of optimize_policy ...
    ys,
    qval_loss,
    q2val_loss,
    qval,
    q2val,
    action_loss,
    ret,            \* the tuple the last call returned
    w_start,        \* history: the weights when the current call began
    w_read,         \* history: the weights the targets were computed from
    w_policy,       \* history: the weights f_train_policy evaluated its loss at
    fed,            \* history: the y array fed to f_train_qf and to f_train_qf2
    trace,          \* history: the events of the current call, in order
    writers,        \* history: the operations that have assigned each variable
    n_train,        \* history: runs of each training operation
    fn_in,          \* the arguments of a function applied on its own
    fn_out,         \* ... and its results
    \* the PPO benchmark (tests/benchmarks/test_benchmark_ppo.py)
    seeds,          \* the seeds list of test_benchmark_ppo
    trial,          \* trials completed
    bpc,            \* the statement of the benchmark that runs next
    var1,           \* the module globals var1 and var2
    var2,
    r1,             \* the parameters of run_garage's policy, <<>> outside it
    r2,             \* the parameters of run_garage_with_models' policy
    run_seeds,      \* history: the seed each run_garage(_with_models) got
    init1,          \* history: the initial parameters of this trial's r1
    start2,         \* history: the parameters r2 began its training with
    reported        \* history: the seeds passed to Rh.plot and Rh.create_json

vars == <<cfg, w, pc, calls, transitions, ys, qval_loss, q2val_loss, qval,
          q2val, action_loss, ret, w_start, w_read, w_policy, fed, trace,
          writers, n_train, fn_in, fn_out, seeds, trial, bpc, var1, var2, r1,
          r2, run_seeds, init1, start2, reported>>

fn == <<fn_in, fn_out>>

bench == <<seeds, trial, bpc, var1, var2, r1, r2, run_seeds, init1, start2,
           reported>>

\* the benchmark is not running
BenchIdle ==
    /\ seeds = <<>>
    /\ trial = 0
    /\ bpc = "none"
    /\ var1 = <<>>
    /\ var2 = <<>>
    /\ r1 = <<>>
    /\ r2 = <<>>
    /\ run_seeds = [garage |-> <<>>, models |-> <<>>]
    /\ init1 = <<>>
    /\ start2 = <<>>
    /\ reported = <<>>

locals == <<transitions, ys, qval_loss, q2val_loss, qval, q2val, action_loss>>

TrainOps == {"policy_train_op", "qf_train_op", "qf2_train_op"}

TargetOps == {"target_init_op", "target_init_op2",
              "target_update_op", "target_update_op2"}

NoWeights == [n \in Nets |-> 0]

\* the order of the statements of optimize_policy
PcAfterTargetsLast(step) ==
    CASE step = "sample" -> "train_qf"
      [] step = "train_qf" -> "train_qf2"
      [] step = "train_qf2" -> "train_policy"
      [] step = "train_policy" -> "update_target"
      [] step = "update_target" -> "update_target2"
      [] step = "update_target2" -> "targets"
      [] step = "targets" -> "return"
      [] OTHER -> "idle"

PcAfter(step) ==
    CASE step = "sample" -> "targets"
      [] step = "targets" -> "train_qf"
      [] step = "train_qf" -> "train_qf2"
      [] step = "train_qf2" -> "train_policy"
      [] step = "train_policy" -> "update_target"
      [] step = "update_target" -> "update_target2"
      [] step = "update_target2" -> "return"
      [] OTHER -> "idle"

InputsOf(batch, config) ==
    [i \in 1..Len(batch) |->
        Inputs(batch[i].observation, batch[i].goal, config.input_include_goal)]

NextInputsOf(batch, config) ==
    [i \in 1..Len(batch) |->
        Inputs(batch[i].next_observation, batch[i].goal,
               config.input_include_goal)]

ActionsOf(batch) == [i \in 1..Len(batch) |-> batch[i].action]

Wrote(op, assigned) ==
    [n \in Nets |-> IF n \in assigned THEN writers[n] \cup {op} ELSE writers[n]]

NoCall == [kind |-> "none"]

InitCall ==
    /\ calls = 0
    /\ transitions = <<>>
    /\ ys = <<>>
    /\ qval_loss = 0
    /\ q2val_loss = 0
    /\ qval = <<>>
    /\ q2val = <<>>
    /\ action_loss = 0
    /\ ret = <<>>
    /\ w_start = NoWeights
    /\ w_read = NoWeights
    /\ w_policy = NoWeights
    /\ fed = [qf |-> <<>>, qf2 |-> <<>>]
    /\ trace = <<>>
    /\ writers = [n \in Nets |-> {}]
    /\ n_train = [op \in TrainOps |-> 0]

Init ==
    /\ cfg \in Configs
    /\ w \in [Nets -> WeightValues]
    /\ pc = "idle"
    /\ InitCall
    /\ fn_in = NoCall
    /\ fn_out = NoCall
    /\ BenchIdle

\* f_init_target / f_init_target2, run by the training loop before the first
\* optimize_policy
F_init_target ==
    /\ pc = "idle" /\ calls = 0
    /\ w' = target_init_op(w)
    /\ writers' = Wrote("target_init_op", {"target_policy", "target_qf"})
    /\ UNCHANGED <<cfg, pc, calls, locals, ret, w_start, w_read, w_policy,
                   fed, trace, n_train, fn, bench>>

F_init_target2 ==
    /\ pc = "idle" /\ calls = 0
    /\ w' = target_init_op2(w)
    /\ writers' = Wrote("target_init_op2", {"target_policy", "target_qf2"})
    /\ UNCHANGED <<cfg, pc, calls, locals, ret, w_start, w_read, w_policy,
                   fed, trace, n_train, fn, bench>>

\* optimize_policy, lines 248-264: sample the replay buffer
Sample ==
    /\ pc = "idle" /\ calls < MaxCalls
    /\ transitions' \in Batches
    /\ pc' = PcAfter("sample")
    /\ ys' = <<>> /\ qval_loss' = 0 /\ q2val_loss' = 0
    /\ qval' = <<>> /\ q2val' = <<>> /\ action_loss' = 0
    /\ w_start' = w
    /\ w_read' = NoWeights
    /\ w_policy' = NoWeights
    /\ fed' = [qf |-> <<>>, qf2 |-> <<>>]
    /\ trace' = <<"sample">>
    /\ ret' = <<>>
    /\ UNCHANGED <<cfg, w, calls, writers, n_train, fn, bench>>

\* lines 266-276: the targets
TargetsOnline(wm, batch, config) ==
    LET next_inputs == NextInputsOf(batch, config)
        target_actions == ActionSym(wm["policy"], next_inputs)
        target_qvals == QvalSym(wm["qf"], next_inputs, target_actions)
        target_q2vals == QvalSym(wm["qf2"], next_inputs, target_actions)
        clip_range == ClipRange(config.clip_return, config.clip_pos_returns)
    IN  [i \in 1..Len(batch) |->
            TargetY(batch[i].reward, batch[i].terminal, config.discount,
                    target_qvals[i], target_q2vals[i], clip_range)]

Targets(wm, batch, config) ==
    LET next_inputs == NextInputsOf(batch, config)
        target_actions == ActionSym(wm["target_policy"], next_inputs)
        target_qvals == QvalSym(wm["target_qf"], next_inputs, target_actions)
        target_q2vals == QvalSym(wm["target_qf2"], next_inputs, target_actions)
        clip_range == ClipRange(config.clip_return, config.clip_pos_returns)
    IN  [i \in 1..Len(batch) |->
            TargetY(batch[i].reward, batch[i].terminal, config.discount,
                    target_qvals[i], target_q2vals[i], clip_range)]

ComputeTargets ==
    /\ pc = "targets"
    /\ ys' = Targets(w, transitions, cfg)
    /\ w_read' = w
    /\ trace' = Append(trace, "targets")
    /\ pc' = PcAfter("targets")
    /\ UNCHANGED <<cfg, w, calls, transitions, qval_loss, q2val_loss, qval,
                   q2val, action_loss, ret, w_start, w_policy, fed, writers,
                   n_train, fn, bench>>

\* line 278: f_train_qf fetches [qf_train_op, qval_loss, qval]
TrainQf ==
    /\ pc = "train_qf"
    /\ LET inputs == InputsOf(transitions, cfg)
           actions == ActionsOf(transitions)
       IN  /\ qval_loss' = QvalLoss(w, ys, inputs, actions, cfg.qf_weight_decay)
           /\ qval' = QvalSym(w["qf"], inputs, actions)
    /\ \E new \in [QfTrainVars -> WeightValues] :
          w' = Minimize(w, QfTrainVars, new)
    /\ fed' = [fed EXCEPT !.qf = ys]
    /\ writers' = Wrote("qf_train_op", QfTrainVars)
    /\ n_train' = [n_train EXCEPT !["qf_train_op"] = @ + 1]
    /\ trace' = Append(trace, "train_qf")
    /\ pc' = PcAfter("train_qf")
    /\ UNCHANGED <<cfg, calls, transitions, ys, q2val_loss, q2val, action_loss,
                   ret, w_start, w_read, w_policy, fn, bench>>

\* lines 281-283: the prediction and the loss that are reported
SelectQvalStrict(loss, loss2, pred, pred2) ==
    IF loss2 < loss THEN pred2 ELSE pred

SelectQval(loss, loss2, pred, pred2) ==
    IF loss2 = NpMinimum(loss, loss2) THEN pred2 ELSE pred

\* lines 279-283: f_train_qf2 fetches [qf2_train_op, qval_loss, q2val]
TrainQf2 ==
    /\ pc = "train_qf2"
    /\ LET inputs == InputsOf(transitions, cfg)
           actions == ActionsOf(transitions)
           loss2 == QvalLoss(w, ys, inputs, actions, cfg.qf_weight_decay)
           pred2 == QvalSym(w["qf2"], inputs, actions)
       IN  /\ q2val_loss' = loss2
           /\ q2val' = pred2
           /\ qval' = SelectQval(qval_loss, loss2, qval, pred2)
           /\ qval_loss' = NpMinimum(qval_loss, loss2)
    /\ \E new \in [Qf2TrainVars -> WeightValues] :
          w' = Minimize(w, Qf2TrainVars, new)
    /\ fed' = [fed EXCEPT !.qf2 = ys]
    /\ writers' = Wrote("qf2_train_op", Qf2TrainVars)
    /\ n_train' = [n_train EXCEPT !["qf2_train_op"] = @ + 1]
    /\ trace' = Append(trace, "train_qf2")
    /\ pc' = PcAfter("train_qf2")
    /\ UNCHANGED <<cfg, calls, transitions, ys, action_loss, ret, w_start,
                   w_read, w_policy, fn, bench>>

\* line 285: f_train_policy fetches [policy_train_op, action_loss]
TrainPolicy ==
    /\ pc = "train_policy"
    /\ action_loss' = ActionLoss(w, InputsOf(transitions, cfg),
                                 cfg.policy_weight_decay)
    /\ w_policy' = w
    /\ \E new \in [PolicyTrainVars -> WeightValues] :
          w' = Minimize(w, PolicyTrainVars, new)
    /\ writers' = Wrote("policy_train_op", PolicyTrainVars)
    /\ n_train' = [n_train EXCEPT !["policy_train_op"] = @ + 1]
    /\ trace' = Append(trace, "train_policy")
    /\ pc' = PcAfter("train_policy")
    /\ UNCHANGED <<cfg, calls, transitions, ys, qval_loss, q2val_loss, qval,
                   q2val, ret, w_start, w_read, fed, fn, bench>>

\* line 287: f_update_target
UpdateTarget ==
    /\ pc = "update_target"
    /\ w' = target_update_op(w, cfg.tau)
    /\ writers' = Wrote("target_update_op", {"target_policy", "target_qf"})
    /\ trace' = Append(trace, "update_target")
    /\ pc' = PcAfter("update_target")
    /\ UNCHANGED <<cfg, calls, locals, ret, w_start, w_read, w_policy, fed,
                   n_train, fn, bench>>

\* line 288: f_update_target2
UpdateTarget2 ==
    /\ pc = "update_target2"
    /\ w' = target_update_op2(w, cfg.tau)
    /\ writers' = Wrote("target_update_op2", {"target_policy", "target_qf2"})
    /\ trace' = Append(trace, "update_target2")
    /\ pc' = PcAfter("update_target2")
    /\ UNCHANGED <<cfg, calls, locals, ret, w_start, w_read, w_policy, fed,
                   n_train, fn, bench>>

\* line 290: the returned tuple
ReturnValueActionLossFirst(loss, targets, pred, a_loss) ==
    <<a_loss, targets, pred, loss>>

ReturnValue(loss, targets, pred, a_loss) == <<loss, targets, pred, a_loss>>

Return ==
    /\ pc = "return"
    /\ ret' = ReturnValue(qval_loss, ys, qval, action_loss)
    /\ calls' = calls + 1
    /\ pc' = PcAfter("return")
    /\ UNCHANGED <<cfg, w, locals, w_start, w_read, w_policy, fed, trace,
                   writers, n_train, fn, bench>>

Next ==
    \/ F_init_target
    \/ F_init_target2
    \/ Sample
    \/ ComputeTargets
    \/ TrainQf
    \/ TrainQf2
    \/ TrainPolicy
    \/ UpdateTarget
    \/ UpdateTarget2
    \/ Return

Spec == Init /\ [][Next]_vars

\* --------------------------------- the target and loss functions on their own
\* The arguments are drawn freely: the target critics' values are any values,
\* not only those the model's networks produce.
RewardValues == {-3, 2}

QValues == {-2, 3}

ClipReturns == {1, 3, Inf}

TargetArgs ==
    [kind : {"targets"},
     rewards : [1..BatchSize -> RewardValues],
     terminals : [1..BatchSize -> {0, 1}],
     target_qvals : [1..BatchSize -> QValues],
     target_q2vals : [1..BatchSize -> QValues],
     clip_return : ClipReturns,
     clip_pos_returns : BOOLEAN,
     discount : 1..DiscountDen]

LossArgs ==
    [kind : {"action_loss"},
     wm : [OnlineNets -> {-Scale, 0, Scale}],
     inputs : [1..BatchSize -> {<<1>>, <<2>>, <<1, 1>>}],
     policy_weight_decay : {0, 1}]

\* lines 271-276 on arrays of values
YsOf(rewards, terminals, discount, target_qvals, target_q2vals, clip_range) ==
    [i \in 1..Len(rewards) |->
        TargetY(rewards[i], terminals[i], discount,
                target_qvals[i], target_q2vals[i], clip_range)]

SwapCritics(wm) == [wm EXCEPT !["qf"] = wm["qf2"], !["qf2"] = wm["qf"]]

FnInit ==
    /\ cfg = CHOOSE c \in Configs : c.clip_return = Inf
    /\ w = NoWeights
    /\ pc = "idle"
    /\ InitCall
    /\ fn_in \in TargetArgs \cup LossArgs
    /\ fn_out = NoCall
    /\ BenchIdle

ApplyTargets ==
    /\ fn_in.kind = "targets" /\ fn_out = NoCall
    /\ LET clip_range == ClipRange(fn_in.clip_return, fn_in.clip_pos_returns)
       IN  fn_out' =
             [kind |-> "targets",
              ys |-> YsOf(fn_in.rewards, fn_in.terminals, fn_in.discount,
                          fn_in.target_qvals, fn_in.target_q2vals, clip_range),
              swapped |-> YsOf(fn_in.rewards, fn_in.terminals, fn_in.discount,
                               fn_in.target_q2vals, fn_in.target_qvals,
                               clip_range)]
    /\ UNCHANGED <<cfg, w, pc, calls, locals, ret, w_start, w_read, w_policy,
                   fed, trace, writers, n_train, fn_in, bench>>

ApplyActionLoss ==
    /\ fn_in.kind = "action_loss" /\ fn_out = NoCall
    /\ fn_out' =
         [kind |-> "action_loss",
          action_loss |-> ActionLoss(fn_in.wm, fn_in.inputs,
                                     fn_in.policy_weight_decay),
          swapped |-> ActionLoss(SwapCritics(fn_in.wm), fn_in.inputs,
                                 fn_in.policy_weight_decay)]
    /\ UNCHANGED <<cfg, w, pc, calls, locals, ret, w_start, w_read, w_policy,
                   fed, trace, writers, n_train, fn_in, bench>>

FnNext == ApplyTargets \/ ApplyActionLoss

FnSpec == FnInit /\ [][FnNext]_vars

\* ------------------------------ repeated soft updates, online weights fixed
\* f_update_target and f_update_target2 in the order of lines 287-288, and
\* nothing else: no training operation changes an online weight.
SoftInit ==
    /\ \E c \in Configs, tau \in 1..TauDen : cfg = [c EXCEPT !.tau = tau]
    /\ w \in [Nets -> WeightValues \cup {0}]
    /\ pc = "update_target"
    /\ InitCall
    /\ fn_in = NoCall
    /\ fn_out = NoCall
    /\ BenchIdle

SoftUpdate1 ==
    /\ pc = "update_target" /\ calls < MaxCalls
    /\ w' = target_update_op(w, cfg.tau)
    /\ w_start' = IF calls = 0 THEN w ELSE w_start
    /\ pc' = "update_target2"
    /\ UNCHANGED <<cfg, calls, locals, ret, w_read, w_policy, fed, trace,
                   writers, n_train, fn, bench>>

SoftUpdate2 ==
    /\ pc = "update_target2"
    /\ w' = target_update_op2(w, cfg.tau)
    /\ calls' = calls + 1
    /\ pc' = "update_target"
    /\ UNCHANGED <<cfg, locals, ret, w_start, w_read, w_policy, fed, trace,
                   writers, n_train, fn, bench>>

SoftNext == SoftUpdate1 \/ SoftUpdate2

SoftSpec == SoftInit /\ [][SoftNext]_vars /\ WF_vars(SoftNext)

\* ----------------------------------------------------- the PPO benchmark
\* test_benchmark_ppo for one task: Trials is task['trials'], a policy has
\* NParams parameter tensors, each one value of ParamValues.
HardcodedSeed == 88

SeedValues == {7, 42, 88, 99}

ParamValues == {0, 1}

ParamVectors == [1..NParams -> ParamValues]

\* line 64: random.sample(range(100), task['trials'])
SeedSamples ==
    {sq \in [1..Trials -> SeedValues] :
        \A i, j \in 1..Trials : i # j => sq[i] # sq[j]}

\* line 73: the seed of a trial
TrialSeed(seed_list, trial_index) == HardcodedSeed

\* line 143: run_garage rebinds the global var1
KeepVar1(old) == old

ResetVar1(old) == <<>>

\* lines 274-275: r2[i].load(var1[i]) for i in range(len(r2))
LoadParams(params, saved) == [i \in 1..Len(params) |-> saved[i]]

BenchInit ==
    /\ cfg = CHOOSE c \in Configs : c.clip_return = Inf
    /\ w = NoWeights
    /\ pc = "idle"
    /\ InitCall
    /\ fn_in = NoCall
    /\ fn_out = NoCall
    /\ seeds \in SeedSamples
    /\ trial = 0
    /\ bpc = "trial"
    /\ var1 = <<>>
    /\ var2 = <<>>
    /\ r1 = <<>>
    /\ r2 = <<>>
    /\ run_seeds = [garage |-> <<>>, models |-> <<>>]
    /\ init1 = <<>>
    /\ start2 = <<>>
    /\ reported = <<>>

td3 == <<cfg, w, pc, calls, locals, ret, w_start, w_read, w_policy, fed,
         trace, writers, n_train, fn>>

\* lines 72-90 and 142-144: the trial begins, run_garage(env, seed, ...) is
\* entered and rebinds var1
RunGarageBegin ==
    /\ bpc = "trial" /\ trial < Trials
    /\ var1' = ResetVar1(var1)
    /\ run_seeds' = [run_seeds EXCEPT
                       !.garage = Append(@, TrialSeed(seeds, trial))]
    /\ bpc' = "garage_setup"
    /\ UNCHANGED <<td3, seeds, trial, var2, r1, r2, init1, start2, reported>>

\* lines 145-197: the policy is built and runner.setup initializes it
RunGarageSetup ==
    /\ bpc = "garage_setup"
    /\ r1' \in ParamVectors
    /\ init1' = r1'
    /\ bpc' = "garage_save"
    /\ UNCHANGED <<td3, seeds, trial, var1, var2, r2, run_seeds, start2,
                   reported>>

\* lines 197-199: var1.extend([i.eval() for i in r1])
RunGarageSave ==
    /\ bpc = "garage_save"
    /\ var1' = var1 \o r1
    /\ bpc' = "garage_train"
    /\ UNCHANGED <<td3, seeds, trial, var2, r1, r2, run_seeds, init1, start2,
                   reported>>

\* line 200: runner.train changes the policy's parameters
RunGarageTrain ==
    /\ bpc = "garage_train"
    /\ r1' \in ParamVectors
    /\ bpc' = "garage_return"
    /\ UNCHANGED <<td3, seeds, trial, var1, var2, r2, run_seeds, init1,
                   start2, reported>>

\* lines 201-203 and 91-96, 217-218: run_garage returns and
\* run_garage_with_models(env, seed, ...) is entered
RunModelsBegin ==
    /\ bpc = "garage_return"
    /\ r1' = <<>>
    /\ run_seeds' = [run_seeds EXCEPT
                       !.models = Append(@, TrialSeed(seeds, trial))]
    /\ bpc' = "models_setup"
    /\ UNCHANGED <<td3, seeds, trial, var1, var2, r2, init1, start2,
                   reported>>

\* lines 219-271: the second policy is built and initialized
RunModelsSetup ==
    /\ bpc = "models_setup"
    /\ r2' \in ParamVectors
    /\ bpc' = "models_load"
    /\ UNCHANGED <<td3, seeds, trial, var1, var2, r1, run_seeds, init1,
                   start2, reported>>

\* lines 272-275: the saved weights are loaded, one element at a time
RunModelsLoad ==
    /\ bpc = "models_load"
    /\ Len(var1) >= Len(r2)
    /\ r2' = LoadParams(r2, var1)
    /\ bpc' = "models_train"
    /\ UNCHANGED <<td3, seeds, trial, var1, var2, r1, run_seeds, init1,
                   start2, reported>>

\* lines 276-277: runner.train, then var2.append([i.eval() for i in r2])
RunModelsTrain ==
    /\ bpc = "models_train"
    /\ start2' = r2
    /\ r2' \in ParamVectors
    /\ var2' = Append(var2, r2')
    /\ bpc' = "models_return"
    /\ UNCHANGED <<td3, seeds, trial, var1, r1, run_seeds, init1, reported>>

\* lines 278-280 and 97-98: run_garage_with_models returns, the trial ends
RunModelsReturn ==
    /\ bpc = "models_return"
    /\ r2' = <<>>
    /\ trial' = trial + 1
    /\ bpc' = "trial"
    /\ UNCHANGED <<td3, seeds, var1, var2, r1, run_seeds, init1, start2,
                   reported>>

\* lines 100-126: the results are plotted and recorded with the seeds list
Report ==
    /\ bpc = "trial" /\ trial = Trials
    /\ reported' = seeds
    /\ bpc' = "done"
    /\ UNCHANGED <<td3, seeds, trial, var1, var2, r1, r2, run_seeds, init1,
                   start2>>

BenchNext ==
    \/ RunGarageBegin
    \/ RunGarageSetup
    \/ RunGarageSave
    \/ RunGarageTrain
    \/ RunModelsBegin
    \/ RunModelsSetup
    \/ RunModelsLoad
    \/ RunModelsTrain
    \/ RunModelsReturn
    \/ Report

BenchSpec == BenchInit /\ [][BenchNext]_vars

\* ================================================================ claims
Done(step) == \E i \in 1..Len(trace) : trace[i] = step

IsPrefix(s, t) == Len(s) <= Len(t) /\ \A i \in 1..Len(s) : s[i] = t[i]

Dist(wm, target) == Abs(wm[target] - wm[OnlineOf(target)])

\* the unclipped target of element i of the arguments of ApplyTargets
RawTarget(i) ==
    fn_in.rewards[i] * DiscountDen
    + (1 - fn_in.terminals[i]) * fn_in.discount
      * (IF fn_in.target_qvals[i] <= fn_in.target_q2vals[i]
         THEN fn_in.target_qvals[i] ELSE fn_in.target_q2vals[i])

\* clip_return in the units of ys
ClipReturnOfYs == 
    IF fn_in.clip_return = Inf THEN Inf ELSE fn_in.clip_return * DiscountDen

\* C1: every computed target lies in the configured clip range:
\* -clip_return <= y <= clip_return when clip_pos_returns is false, and
\* -clip_return <= y <= 0 when it is true, whatever the rewards, the terminal
\* flags and the target critics' values are.
C1_TargetsWithinClipRange ==
    fn_out.kind = "targets" =>
        \A i \in 1..Len(fn_out.ys) :
            /\ -ClipReturnOfYs <= fn_out.ys[i]
            /\ fn_out.ys[i] <= (IF fn_in.clip_pos_returns THEN 0
                                ELSE ClipReturnOfYs)

\* a batch with targets clipped from above at 0 and from below at -clip_return
C1_Witness ==
    /\ fn_out.kind = "targets"
    /\ fn_in.clip_pos_returns /\ fn_in.clip_return # Inf
    /\ \E i \in 1..BatchSize : RawTarget(i) > 0 /\ fn_out.ys[i] = 0
    /\ \E i \in 1..BatchSize :
          RawTarget(i) < -ClipReturnOfYs /\ fn_out.ys[i] = -ClipReturnOfYs

\* C2: the target networks' variables are assigned by the target init and
\* soft-update operations only, never by one of the three training operations.
C2_TargetsNeverTrained ==
    \A t \in TargetNets : writers[t] \subseteq TargetOps

\* every training operation has run and every target has been soft-updated
C2_Witness ==
    /\ \A op \in TrainOps : n_train[op] >= 1
    /\ calls >= 1
    /\ \A t \in TargetNets : writers[t] # {}
    /\ \A n \in OnlineNets : writers[n] # {}

StepOrder ==
    <<"sample", "targets", "train_qf", "train_qf2", "train_policy",
      "update_target", "update_target2">>

\* C3: within a call the events happen in the order sample, targets, critic
\* training, actor training, soft updates; and the targets are computed from
\* the target weights the call started with.
C3_StepOrder ==
    /\ IsPrefix(trace, StepOrder)
    /\ Done("targets") => \A t \in TargetNets : w_read[t] = w_start[t]

\* a complete call whose soft updates did change a target weight
C3_Witness ==
    /\ pc = "return"
    /\ trace = StepOrder
    /\ \E t \in TargetNets : w[t] # w_start[t]
    /\ \E n \in OnlineNets : w[n] # w_start[n]

CallsStarted == calls + (IF pc = "idle" THEN 0 ELSE 1)

\* C4: the actor update is delayed: policy_train_op runs on every N-th call
\* only, for a delay N >= 2; so among any k calls it has run in at most
\* (k + 1) / 2 of them.
C4_ActorDelayed ==
    2 * n_train["policy_train_op"] <= CallsStarted + 1

\* C5, one step: no soft update moves a target weight away from its online
\* weight.
C5_NeverFartherStep ==
    \A t \in TargetNets : Dist(w', t) <= Dist(w, t)

\* C5, in the end: every distance has shrunk by (1 - tau)^MaxCalls or more
C5_Shrunk ==
    /\ calls > 0
    /\ \A t \in TargetNets :
          Dist(w, t) * Pow(TauDen, MaxCalls)
            <= Dist(w_start, t) * Pow(TauDen - cfg.tau, MaxCalls)

\* C5: with the online weights fixed and tau in (0, 1], repeated soft updates
\* never increase the distance of a target weight to its online weight, and
\* the distance eventually falls below its geometric bound.
C5_SoftUpdatesConverge == [][C5_NeverFartherStep]_vars /\ <>C5_Shrunk

\* soft updates with tau < 1 have moved a target closer, and not yet onto,
\* its online weight
C5_Witness ==
    /\ pc = "update_target" /\ calls = MaxCalls
    /\ cfg.tau < TauDen
    /\ \E t \in TargetNets : 0 < Dist(w, t) /\ Dist(w, t) < Dist(w_start, t)

\* C6: exchanging the two target critics' values leaves ys unchanged, and
\* exchanging the two online critics leaves the actor loss unchanged.
C6_MinSymmetric ==
    /\ fn_out.kind = "targets" => fn_out.ys = fn_out.swapped
    /\ fn_out.kind = "action_loss" => fn_out.action_loss = fn_out.swapped

\* targets of a non-terminal transition whose two target critics disagree,
\* left unclipped
C6_Witness ==
    /\ fn_out.kind = "targets"
    /\ fn_in.clip_return = Inf /\ ~fn_in.clip_pos_returns
    /\ \E i \in 1..BatchSize :
          /\ fn_in.terminals[i] = 0
          /\ fn_in.target_qvals[i] # fn_in.target_q2vals[i]
          /\ fn_out.ys[i] = RawTarget(i)

\* the weights f_train_qf2 ran at: qf trained, qf2 and the policy not yet
WeightsAtTrainQf2 == [w_start EXCEPT !["qf"] = w_policy["qf"]]

C8_ClaimedTarget(i) ==
    LET t == transitions[i]
        s2 == Inputs(t.next_observation, t.goal, cfg.input_include_goal)
        a2 == PolicyNet(w_start["target_policy"], s2)
        q1 == QNet(w_start["target_qf"], s2, a2)
        q2 == QNet(w_start["target_qf2"], s2, a2)
        lo == IF cfg.clip_return = Inf THEN -Inf
              ELSE -(cfg.clip_return * DiscountDen)
        hi == IF cfg.clip_pos_returns THEN 0
              ELSE IF cfg.clip_return = Inf THEN Inf
              ELSE cfg.clip_return * DiscountDen
        raw == t.reward * DiscountDen
               + (1 - t.terminal) * cfg.discount * (IF q1 <= q2 THEN q1 ELSE q2)
    IN  IF raw < lo THEN lo ELSE IF raw > hi THEN hi ELSE raw

\* C8: ys is the clipped TD(0) target, bootstrapped from the minimum of the
\* two target critics at the target policy's action, and the same ys is fed
\* to the training call of each critic.
C8_ClippedTargetFedToBoth ==
    /\ Done("targets") =>
          /\ Len(ys) = Len(transitions)
          /\ \A i \in 1..Len(ys) : ys[i] = C8_ClaimedTarget(i)
    /\ Done("train_qf") => fed.qf = ys /\ Done("targets")
    /\ Done("train_qf2") => fed.qf2 = ys /\ Done("targets")

\* both critics were fed; a transition bootstraps from target critics that
\* differ from each other and from the online critics
C8_Witness ==
    /\ pc = "return"
    /\ fed.qf = ys /\ fed.qf2 = ys /\ Len(ys) = BatchSize
    /\ \E i \in 1..BatchSize : transitions[i].terminal = 0
    /\ w_start["target_qf"] # w_start["target_qf2"]
    /\ w_start["target_qf"] # w_start["qf"]
    /\ w_start["target_policy"] # w_start["policy"]

\* C9, one step: f_train_qf assigns variables of qf only, f_train_qf2
\* variables of qf2 only.
C9_CriticFrameStep ==
    /\ pc = "train_qf" => \A n \in Nets \ {"qf"} : w'[n] = w[n]
    /\ pc = "train_qf2" => \A n \in Nets \ {"qf2"} : w'[n] = w[n]

\* C9: the two critics are trained independently of each other.
C9_CriticsIndependent == [][C9_CriticFrameStep]_vars

\* both critics have been trained in this call, and both changed
C9_Witness ==
    /\ pc = "train_policy"
    /\ w["qf"] # w_start["qf"]
    /\ w["qf2"] # w_start["qf2"]
    /\ w["policy"] = w_start["policy"]

\* the actor loss the claim states, at the weights wm; units of
\* 1/(2*B*Scale^2)
C10_ClaimedLoss(wm) ==
    LET inputs == InputsOf(transitions, cfg)
        MinQ(i) ==
            LET a == PolicyNet(wm["policy"], inputs[i])
                q1 == QNet(wm["qf"], inputs[i], a)
                q2 == QNet(wm["qf2"], inputs[i], a)
            IN  IF q1 <= q2 THEN q1 ELSE q2
    IN  -(2 * Scale * SumSeq([i \in 1..Len(inputs) |-> MinQ(i)]))
        + (IF cfg.policy_weight_decay > 0
           THEN Len(inputs) * cfg.policy_weight_decay
                * wm["policy"] * wm["policy"]
           ELSE 0)

\* C10, one step: the policy training operation minimizes the claimed loss
\* and assigns policy variables only.
C10_ActorStep ==
    pc = "train_policy" =>
        /\ action_loss' = C10_ClaimedLoss(w)
        /\ \A n \in Nets \ {"policy"} : w'[n] = w[n]

\* C10: the actor loss is the negated batch mean of the minimum of the two
\* critics at the policy's action, plus the policy L2 term when
\* policy_weight_decay > 0; minimizing it changes policy variables only.
C10_ActorMaximizesMinQ == [][C10_ActorStep]_vars

\* the policy was trained, with weight decay, where the two critics differ
C10_Witness ==
    /\ pc = "update_target"
    /\ w["policy"] # w_start["policy"]
    /\ w["qf"] # w["qf2"]
    /\ cfg.policy_weight_decay > 0
    /\ action_loss = C10_ClaimedLoss(w_policy)

\* clip(reward) alone for element i of the arguments of ApplyTargets, in the
\* units of ys
C11_ClippedReward(i) ==
    LET r == fn_in.rewards[i] * DiscountDen
        hi == IF fn_in.clip_pos_returns THEN 0 ELSE ClipReturnOfYs
    IN  IF r < -ClipReturnOfYs THEN -ClipReturnOfYs
        ELSE IF r > hi THEN hi ELSE r

\* C11: the target of a transition whose terminal flag is 1 is clip(reward)
\* alone, whatever the target critics' values are: no bootstrapping past a
\* terminal state.
C11_NoBootstrapAtTerminal ==
    fn_out.kind = "targets" =>
        \A i \in 1..Len(fn_out.ys) :
            fn_in.terminals[i] = 1 => fn_out.ys[i] = C11_ClippedReward(i)

\* a batch with a terminal transition whose target is the unclipped reward,
\* next to a non-terminal one that does bootstrap
C11_Witness ==
    /\ fn_out.kind = "targets"
    /\ fn_in.clip_return = Inf /\ ~fn_in.clip_pos_returns
    /\ \E i \in 1..BatchSize :
          /\ fn_in.terminals[i] = 1
          /\ fn_out.ys[i] = fn_in.rewards[i] * DiscountDen
    /\ \E i \in 1..BatchSize :
          /\ fn_in.terminals[i] = 0
          /\ fn_out.ys[i] # fn_in.rewards[i] * DiscountDen

\* the loss and the prediction each critic training call of the last call
\* reported
C12_Reported ==
    LET inputs == InputsOf(transitions, cfg)
        actions == ActionsOf(transitions)
    IN  [loss |-> QvalLoss(w_start, ys, inputs, actions, cfg.qf_weight_decay),
         loss2 |-> QvalLoss(WeightsAtTrainQf2, ys, inputs, actions,
                            cfg.qf_weight_decay),
         pred |-> QvalSym(w_start["qf"], inputs, actions),
         pred2 |-> QvalSym(w_start["qf2"], inputs, actions)]

\* C12: the returned qval_loss is the smaller of the two reported losses, and
\* the returned qval is the first critic's prediction when its loss is
\* strictly smaller, the second critic's otherwise (also on a tie).
C12_ReportsMinLoss ==
    (pc = "idle" /\ calls > 0) =>
        LET r == C12_Reported
        IN  /\ ret[1] = (IF r.loss < r.loss2 THEN r.loss ELSE r.loss2)
            /\ ret[3] = (IF r.loss < r.loss2 THEN r.pred ELSE r.pred2)

\* a call whose two reported losses are equal and whose two predictions
\* differ: the second critic's prediction was returned
C12_Witness ==
    /\ pc = "idle" /\ calls > 0
    /\ C12_Reported.loss = C12_Reported.loss2
    /\ C12_Reported.pred # C12_Reported.pred2
    /\ ret[3] = C12_Reported.pred2

\* a call whose first critic reported the strictly smaller loss
C12_FirstSmaller ==
    /\ pc = "idle" /\ calls > 0
    /\ C12_Reported.loss < C12_Reported.loss2
    /\ C12_Reported.pred # C12_Reported.pred2

\* C14: every target network receives exactly one soft update per call: when
\* the call has run its soft updates, every target weight is
\* (1 - tau) * old_target + tau * online.
C14_OneSoftUpdatePerCall ==
    pc = "return" =>
        \A t \in TargetNets :
            TauDen * w[t]
              = (TauDen - cfg.tau) * w_start[t] + cfg.tau * w[OnlineOf(t)]

\* C14, for the two target critics alone
C14_TargetCriticsOnce ==
    pc = "return" =>
        \A t \in {"target_qf", "target_qf2"} :
            TauDen * w[t]
              = (TauDen - cfg.tau) * w_start[t] + cfg.tau * w[OnlineOf(t)]

\* C15: the loss minimized for the second critic has the form of the first
\* critic's with the roles of qf and qf2 exchanged: with qf_weight_decay > 0
\* its L2 penalty is on the weights of qf2.
C15_CriticLossesSameForm ==
    Done("train_policy") =>
        q2val_loss = QvalLoss(SwapCritics(WeightsAtTrainQf2), ys,
                              InputsOf(transitions, cfg),
                              ActionsOf(transitions), cfg.qf_weight_decay)

\* C13: in every trial the model-based policy starts its training from
\* exactly the initial weights run_garage saved in the same trial: var1 holds
\* that trial's initial parameters, once, and they are what r2 has loaded.
C13_SecondRunStartsFromSaved ==
    /\ bpc \in {"garage_train", "garage_return", "models_setup", "models_load"}
          => var1 = init1
    /\ bpc = "models_train" => (var1 = init1 /\ r2 = init1)
    /\ bpc = "models_return" => start2 = init1

\* a later trial whose first policy started from other weights than those
\* the second policy was built with, and both trainings changed the weights
C13_Witness ==
    /\ bpc = "models_return" /\ trial >= 1
    /\ Len(var2) = trial + 1
    /\ start2 = init1
    /\ r2 # start2
    /\ \E i \in 1..NParams : init1[i] # 0

\* C16: the seeds recorded with the results are the seeds the trials ran
\* with: run_garage and run_garage_with_models of trial i got seeds[i].
C16_RecordedSeedsAreUsed ==
    /\ \A i \in 1..Len(run_seeds.garage) : run_seeds.garage[i] = seeds[i]
    /\ \A i \in 1..Len(run_seeds.models) : run_seeds.models[i] = seeds[i]
    /\ bpc = "done" => reported = seeds

\* every soft update of the model is exact
ExactStep ==
    pc \in {"update_target", "update_target2"} =>
        \A t \in TargetNets :
            (cfg.tau * w[OnlineOf(t)] + (TauDen - cfg.tau) * w[t]) % TauDen = 0

ExactArithmetic == [][ExactStep]_vars

====
